---- MODULE Spec2Model ----
(***************************************************************************)
(* Model of scripts/quotes.js: the quote cache kept in localStorage, the   *)
(* staleness test, the language target, the provider fallback chain, the   *)
(* retrieval orchestrator getQuotesForLanguage and the widget wiring.      *)
(*                                                                         *)
(* Strings the code computes on (localStorage keys, language codes) are    *)
(* sequences of characters, so that startsWith and includes are computed.  *)
(* A JS value that may be null is a sequence of length 0 (null) or 1.      *)
(***************************************************************************)
EXTENDS Integers, Sequences, FiniteSets, TLC

VARIABLES
    localStorage,               \* key -> stored value, DOMAIN = keys present
    lastKnownLanguage,          \* Null before DOMContentLoaded
    currentLanguage,            \* external global: the active language
    onLine,                     \* navigator.onLine
    now,                        \* Date.now(), in milliseconds
    hideSearchWith,             \* #shortcut_switchcheckbox .checked
    motivationalQuotesCheckbox, \* #motivationalQuotesCheckbox .checked
    widget,                     \* quotesContainer / authorName textContent
    calls,                      \* loadAndDisplayQuote invocations in flight
    entered,                    \* the invocation that began in the last step
    ret,                        \* the invocation that completed in the last step
    needs,                      \* result of a direct needsDataFetch call
    argLang,                    \* arguments and result of a direct
    argMetadata,                \*   getTargetLanguage call
    target,
    argQuotes,                  \* quotes argument of a direct call
    argStorage,                 \* localStorage as a direct call found it
    draws,                      \* the values Math.random() gives a direct call
    result                      \* what a direct call returned or rendered

vars == <<localStorage, lastKnownLanguage, currentLanguage, onLine, now,
          hideSearchWith, motivationalQuotesCheckbox, widget, calls, entered,
          ret, needs, argLang, argMetadata, target, argQuotes, argStorage,
          draws, result>>

----------------------------------------------------------------------------
(* Constants of the program *)

MAX_QUOTE_LENGTH == 140
MIN_QUOTES_FOR_LANG == 100
ONE_DAY == 24 * 60 * 60 * 1000

FALLBACK_QUOTE ==
    [quote |-> "Don't watch the clock; do what it does. Keep going.",
     author |-> "Sam Levenson"]

(* Bounds of the model *)
MaxCalls == 1       \* loadAndDisplayQuote invocations in flight at once

----------------------------------------------------------------------------
(* JS values *)

Null == <<>>
Some(v) == <<v>>
Truthy(x) == x # Null
\* a || b on possibly-null values
OrElse(a, b) == IF Truthy(a) THEN a ELSE b

----------------------------------------------------------------------------
(* Strings as character sequences *)

EN == <<"e", "n">>
FR == <<"f", "r">>
ES == <<"e", "s">>
Langs == {EN, FR, ES}
\* the languages the user switches between in Spec
UserLangs == {EN, FR}

QuotesPrefix == <<"q", "u", "o", "t", "e", "s", "_">>
TimestampSuffix == <<"_", "t", "i", "m", "e", "s", "t", "a", "m", "p">>
CountSuffix == <<"_", "c", "o", "u", "n", "t">>
JsonSuffix == <<".", "j", "s", "o", "n">>

QuotesKey(lang) == QuotesPrefix \o lang
TimestampKey(lang) == QuotesPrefix \o lang \o TimestampSuffix
CountKey(lang) == QuotesPrefix \o lang \o CountSuffix
MetadataTimestampKey ==
    QuotesPrefix \o <<"m", "e", "t", "a", "d", "a", "t", "a">> \o TimestampSuffix
VisibleKey == <<"m", "o", "t", "i", "v", "a", "t", "i", "o", "n", "a", "l",
                "Q", "u", "o", "t", "e", "s", "V", "i", "s", "i", "b", "l", "e">>
FileName(lang) == lang \o JsonSuffix

StartsWith(s, p) == Len(s) >= Len(p) /\ SubSeq(s, 1, Len(p)) = p
Includes(s, p) ==
    \E i \in 0..(Len(s) - Len(p)) : SubSeq(s, i + 1, i + Len(p)) = p

----------------------------------------------------------------------------
(* localStorage *)

hasItem(st, key) == key \in DOMAIN st
setItem(st, key, value) ==
    [k \in DOMAIN st \cup {key} |-> IF k = key THEN value ELSE st[k]]
removeItems(st, keys) == [k \in DOMAIN st \ keys |-> st[k]]
EmptyStorage == [k \in {} |-> 0]

Digits == <<"0", "1", "2", "3", "4", "5", "6", "7", "8", "9">>
IsDigit(ch) == \E d \in 1..Len(Digits) : Digits[d] = ch
DigitValue(ch) == (CHOOSE d \in 1..Len(Digits) : Digits[d] = ch) - 1

\* n.toString() of a non-negative integer
RECURSIVE toString(_)
toString(n) ==
    IF n < Len(Digits) THEN <<Digits[n + 1]>>
    ELSE toString(n \div Len(Digits)) \o <<Digits[(n % Len(Digits)) + 1]>>

\* the value of the leading digits of text, 0 when there is none
RECURSIVE ParseDigits(_, _)
ParseDigits(text, acc) ==
    IF text = <<>> \/ ~IsDigit(Head(text)) THEN acc
    ELSE ParseDigits(Tail(text), Len(Digits) * acc + DigitValue(Head(text)))

\* parseInt(localStorage.getItem(key)) || 0 : an absent key or a text without
\* leading digit parses to NaN, hence 0
ParseIntOr0(st, key) == IF hasItem(st, key) THEN ParseDigits(st[key], 0) ELSE 0

(* JSON text of a list of quotes, as a sequence of tokens *)
RECURSIVE JSONitems(_)
JSONitems(quotes) ==
    IF quotes = <<>> THEN <<>>
    ELSE <<"{", "quote", quotes[1].quote, "author", quotes[1].author, "}">>
         \o JSONitems(Tail(quotes))
JSONstringify(quotes) == <<"[">> \o JSONitems(quotes) \o <<"]">>

RECURSIVE JSONparseItems(_)
JSONparseItems(toks) ==
    IF toks = <<>> THEN <<>>
    ELSE <<[quote |-> toks[3], author |-> toks[5]]>>
         \o JSONparseItems(SubSeq(toks, 7, Len(toks)))
JSONparse(text) == JSONparseItems(SubSeq(text, 2, Len(text) - 1))

clearQuotesKeys(st) ==
    removeItems(st, {k \in DOMAIN st : StartsWith(k, QuotesPrefix)})

clearOtherLanguageQuotes(st, exceptLang) ==
    removeItems(st, {k \in DOMAIN st :
        /\ StartsWith(k, QuotesPrefix)
        /\ ~Includes(k, QuotesPrefix \o exceptLang)
        /\ k # MetadataTimestampKey})

getStoredQuotes(st, lang) ==
    IF hasItem(st, QuotesKey(lang)) THEN Some(JSONparse(st[QuotesKey(lang)]))
    ELSE Null

----------------------------------------------------------------------------
(* needsDataFetch, over the state it reads *)

requiredKeys(lang) == {QuotesKey(lang), TimestampKey(lang), CountKey(lang)}

\* mutant: the longer age of large datasets is lost
maxAge_alwaysOneDay(storedCount) == ONE_DAY

maxAge(storedCount) ==
    IF storedCount < MIN_QUOTES_FOR_LANG THEN ONE_DAY ELSE 7 * ONE_DAY

\* mutant: the offline test is dropped
needsDataFetch_fetchesOffline(st, online, lastKnown, current, t, lang) ==
    IF lastKnown # Null /\ lastKnown # current THEN TRUE
    ELSE IF \E k \in requiredKeys(lang) : ~hasItem(st, k) THEN TRUE
    ELSE LET storedCount == ParseIntOr0(st, CountKey(lang))
             timeDiff == t - st[TimestampKey(lang)]
         IN  IF storedCount = 0 THEN timeDiff > ONE_DAY
             ELSE timeDiff > maxAge(storedCount)

\* mutant: the language-change test is dropped
needsDataFetch_ignoresLanguage(st, online, lastKnown, current, t, lang) ==
    IF ~online THEN FALSE
    ELSE IF \E k \in requiredKeys(lang) : ~hasItem(st, k) THEN TRUE
    ELSE LET storedCount == ParseIntOr0(st, CountKey(lang))
             timeDiff == t - st[TimestampKey(lang)]
         IN  IF storedCount = 0 THEN timeDiff > ONE_DAY
             ELSE timeDiff > maxAge(storedCount)

needsDataFetch(st, online, lastKnown, current, t, lang) ==
    IF ~online THEN FALSE
    ELSE IF lastKnown # Null /\ lastKnown # current THEN TRUE
    ELSE IF \E k \in requiredKeys(lang) : ~hasItem(st, k) THEN TRUE
    ELSE LET storedCount == ParseIntOr0(st, CountKey(lang))
             timeDiff == t - st[TimestampKey(lang)]
         IN  IF storedCount = 0 THEN timeDiff > ONE_DAY
             ELSE timeDiff > maxAge(storedCount)

----------------------------------------------------------------------------
(* getTargetLanguage *)

\* metadata.files: file name -> count, DOMAIN = the files listed
MetaCounts == {0, 99, 100}
FilesMaps(langs) ==
    UNION {[{FileName(l) : l \in L} -> MetaCounts] : L \in SUBSET langs}
Metadatas(langs) == {[lastUpdated |-> "v1", files |-> f] : f \in FilesMaps(langs)}

\* metadata?.files?.[`${lang}.json`]?.count, Null when any link is missing
FileCount(metadata, lang) ==
    IF metadata = Null THEN Null
    ELSE IF FileName(lang) \in DOMAIN metadata[1].files
         THEN Some(metadata[1].files[FileName(lang)])
         ELSE Null

\* mutant: > for >=
getTargetLanguage_strict(currentLang, metadata) ==
    IF currentLang = EN THEN EN
    ELSE IF FileCount(metadata, currentLang) # Null
            /\ FileCount(metadata, currentLang)[1] > MIN_QUOTES_FOR_LANG
         THEN currentLang
         ELSE EN

getTargetLanguage(currentLang, metadata) ==
    IF currentLang = EN THEN EN
    ELSE IF FileCount(metadata, currentLang) # Null
            /\ FileCount(metadata, currentLang)[1] >= MIN_QUOTES_FOR_LANG
         THEN currentLang
         ELSE EN

----------------------------------------------------------------------------
(* Providers: what a request may deliver *)

Quote(text, by) == [quote |-> text, author |-> by]

\* the texts the bulk provider serves for a language
BulkText(lang) ==
    IF lang = EN THEN "en-text" ELSE IF lang = FR THEN "fr-text" ELSE "es-text"
BulkQuotes(lang) == <<Quote(BulkText(lang), "Author")>>

apis == <<"vercel", "programming", "dummyjson">>

\* bodies a fallback provider may answer with: one complete, one without text
RawResponses(api) ==
    IF api = "vercel"
    THEN {[quote |-> "vercel-quote", author |-> "vercel-author"], [by |-> "nobody"]}
    ELSE IF api = "programming"
    THEN {[en |-> "programming-quote", by |-> "programming-author"],
          [author |-> "nobody"]}
    ELSE {[quote |-> "dummyjson-quote"], [id |-> "7"]}

\* data.f1 || data.f2 || ... || default
RECURSIVE FirstOf(_, _, _)
FirstOf(data, fields, default) ==
    IF fields = <<>> THEN default
    ELSE IF Head(fields) \in DOMAIN data /\ data[Head(fields)] # ""
         THEN data[Head(fields)]
         ELSE FirstOf(data, Tail(fields), default)

QuoteFields(api) ==
    IF api = "programming" THEN <<"quote", "text", "content", "en">>
    ELSE <<"quote", "text", "content">>

\* the normalisation of fetchVercelQuote / fetchProgrammingQuote /
\* fetchDummyJsonQuote
Normalize(api, data) ==
    [quote |-> FirstOf(data, QuoteFields(api), ""),
     author |-> FirstOf(data, <<"author", "by">>, "Unknown")]

\* the body `null`, which response.json() resolves to the JS value null
JSONnull == [json |-> "null"]
\* the JS value of a delivered body
Body(resp) == IF resp[1] = JSONnull THEN Null ELSE resp

\* A request made while the client is offline fails; online it may fail
\* (network error, bad status, unparsable body) or deliver a body.
MetadataResponses(online) ==
    {Null} \cup (IF online
                 THEN {Some(m) : m \in Metadatas(UserLangs) \cup {JSONnull}}
                 ELSE {})
QuotesResponses(online, lang) ==
    {Null} \cup (IF online THEN {Some(<<>>), Some(BulkQuotes(lang))} ELSE {})
AlternativeResponses(online, api) ==
    {Null} \cup (IF online THEN {Some(Normalize(api, d)) : d \in RawResponses(api)}
                 ELSE {})

----------------------------------------------------------------------------
(* Cache writes *)

storeQuotesData(st, lang, quotes, metadata, t) ==
    LET st1 == setItem(setItem(st, QuotesKey(lang), JSONstringify(quotes)),
                       TimestampKey(lang), t)
        count == FileCount(metadata, lang)
        quoteCount == IF count # Null /\ count[1] # 0 THEN count[1] ELSE Len(quotes)
    IN  IF metadata # Null
        THEN setItem(setItem(st1, MetadataTimestampKey, metadata[1].lastUpdated),
                     CountKey(lang), toString(quoteCount))
        ELSE st1

storeNoDataInfo(st, lang, metadata, t) ==
    LET st1 == setItem(setItem(setItem(st, QuotesKey(lang), JSONstringify(<<>>)),
                               TimestampKey(lang), t),
                       CountKey(lang), toString(0))
    IN  IF metadata # Null
        THEN setItem(st1, MetadataTimestampKey, metadata[1].lastUpdated)
        ELSE st1

\* the three setItem calls that cache one alternative quote with count "1"
storeAlternative(st, lang, quote, t) ==
    setItem(setItem(setItem(st, QuotesKey(lang), JSONstringify(<<quote>>)),
                    TimestampKey(lang), t),
            CountKey(lang), toString(1))

----------------------------------------------------------------------------
(* getQuotesForLanguage, cut at its awaits.  A call is a record:           *)
(*   pc            the request it awaits: "metadata", "quotes", "alt"      *)
(*   ctx           where in the function: "fetch" (lines 273-309),         *)
(*                 "english" (316-341), "stored" (349-360), "outer"        *)
(*                 (362-380)                                               *)
(*   forceRefresh, metadata, targetLang, englishQuotes   its locals        *)
(*   api           index in apis of the provider awaited                   *)
(*   requests      the requests it issued, in order                        *)
(*   altRuns       one log per run of fetchAlternativeQuote: the providers *)
(*                 invoked, each with the quote it delivered, if any       *)
(*   outerStored   what the outer handler read from the cache              *)
(* Each operator below runs the code from one await to the next and gives  *)
(* the storage, the call, and the outcome once the function has finished.  *)

NewCall(force) ==
    [pc |-> "metadata", ctx |-> "fetch", forceRefresh |-> force,
     metadata |-> Null, targetLang |-> Null, englishQuotes |-> Null, api |-> 0,
     requests |-> <<>>, altRuns |-> <<>>, outerStored |-> Null]

Request(call, endpoint) == [call EXCEPT !.requests = Append(@, endpoint)]

Going(st, call) == [st |-> st, call |-> call, out |-> Null]
Return(st, call, quotes) ==
    [st |-> st, call |-> call, out |-> Some([kind |-> "return", quotes |-> quotes])]
Throw(st, call) ==
    [st |-> st, call |-> call, out |-> Some([kind |-> "throw", quotes |-> <<>>])]

\* fetchAlternativeQuote is entered: the first provider is requested
StartAlternative(call, ctx) ==
    [Request(call, apis[1]) EXCEPT !.pc = "alt", !.ctx = ctx, !.api = 1,
                                   !.altRuns = Append(@, <<>>)]

\* mutant: the outer handler lets the last failure escape
OuterAlternativeFailed_rethrows(st, call) == Throw(st, call)

\* mutant: the outer handler never settles after the last failure
OuterAlternativeFailed_hangs(st, call) == Going(st, [call EXCEPT !.pc = "never"])

\* lines 370-376: the last fetchAlternativeQuote of the outer handler failed
OuterAlternativeFailed(st, call) == Return(st, call, <<FALLBACK_QUOTE>>)

\* lines 362-380, up to the await of fetchAlternativeQuote
OuterHandler(st, cur, call) ==
    LET own == getStoredQuotes(st, cur)
        en == getStoredQuotes(st, EN)
        quotes == OrElse(own, en)
        c == [call EXCEPT !.outerStored = Some([own |-> own, en |-> en])]
    IN  IF quotes = Null \/ Len(quotes[1]) = 0
        THEN Going(st, StartAlternative(c, "outer"))
        ELSE Return(st, c, quotes[1])

\* fetchAlternativeQuote returned quote
AlternativeSucceeded(st, cur, t, call, quote) ==
    IF call.ctx = "fetch" THEN Return(storeAlternative(st, cur, quote, t), call, <<quote>>)
    ELSE IF call.ctx = "english"
    THEN Return(storeAlternative(st, EN, quote, t), call, <<quote>>)
    ELSE IF call.ctx = "stored"
    THEN Return(storeAlternative(st, cur, quote, t), call, <<quote>>)
    ELSE Return(st, call, <<quote>>)

\* fetchAlternativeQuote threw "All alternative quote APIs failed"
AlternativeFailed(st, cur, call) ==
    IF call.ctx = "fetch" THEN OuterHandler(st, cur, call)
    ELSE IF call.ctx = "english"
    THEN Return(st, call, OrElse(call.englishQuotes, Some(<<FALLBACK_QUOTE>>))[1])
    ELSE IF call.ctx = "stored" THEN Return(st, call, <<FALLBACK_QUOTE>>)
    ELSE OuterAlternativeFailed(st, call)

\* quote && quote.quote && quote.author
Complete(resp) == resp # Null /\ resp[1].quote # "" /\ resp[1].author # ""

\* mutant: the loop skips a provider
NextApi_skips(i) == IF i = 1 THEN 3 ELSE 0

\* the provider to try after provider i did not deliver: 0 when none is left
NextApi(i) == IF i < Len(apis) THEN i + 1 ELSE 0

\* one iteration of the loop of fetchAlternativeQuote: provider call.api
\* answered resp (Null: it threw)
OnAlternative(st, cur, t, call, resp) ==
    LET n == Len(call.altRuns)
        logged == [call EXCEPT !.altRuns[n] =
                      Append(@, [api |-> apis[call.api],
                                 quote |-> IF Complete(resp) THEN resp ELSE Null])]
    IN  IF Complete(resp) THEN AlternativeSucceeded(st, cur, t, logged, resp[1])
        ELSE IF NextApi(call.api) # 0
        THEN Going(st, [Request(logged, apis[NextApi(call.api)])
                            EXCEPT !.api = NextApi(call.api)])
        ELSE AlternativeFailed(st, cur, logged)

\* await fetchMetadata() resumed (lines 275-288 and 322-323)
OnMetadata(st, cur, t, call, resp) ==
    IF resp = Null THEN Going(st, StartAlternative(call, call.ctx))
    ELSE LET metadata == Body(resp)
         IN  IF call.ctx = "fetch"
             THEN IF metadata = Null
                  \* metadata.files (line 279) throws on null: caught at 292
                  THEN Going(st, StartAlternative(call, "fetch"))
                  ELSE LET targetLang == getTargetLanguage(cur, metadata)
                           count == FileCount(metadata, cur)
                           currentLangCount ==
                               IF count # Null THEN count[1] ELSE 0
                           st1 == IF currentLangCount = 0 /\ cur # EN
                                  THEN storeNoDataInfo(st, cur, metadata, t)
                                  ELSE st
                       IN  Going(st1, [Request(call, "quotes") EXCEPT
                                          !.pc = "quotes", !.metadata = metadata,
                                          !.targetLang = targetLang])
             ELSE Going(st, [Request(call, "quotes") EXCEPT
                                !.pc = "quotes", !.metadata = metadata,
                                !.targetLang = EN])

\* mutant: the English quotes fetched for a language without quotes are
\* returned but not cached
OnQuotes_englishNotCached(st, cur, t, call, resp) ==
    IF resp = Null THEN Going(st, StartAlternative(call, call.ctx))
    ELSE IF call.ctx = "fetch"
    THEN Return(clearOtherLanguageQuotes(
                    storeQuotesData(st, call.targetLang, resp[1], call.metadata, t),
                    cur),
                call, resp[1])
    ELSE Return(st, call, resp[1])

\* await fetchQuotes(lang) resumed (lines 288-291 and 323-324, 340)
OnQuotes(st, cur, t, call, resp) ==
    IF resp = Null THEN Going(st, StartAlternative(call, call.ctx))
    ELSE IF call.ctx = "fetch"
    THEN Return(clearOtherLanguageQuotes(
                    storeQuotesData(st, call.targetLang, resp[1], call.metadata, t),
                    cur),
                call, resp[1])
    ELSE Return(storeQuotesData(st, EN, resp[1], call.metadata, t), call, resp[1])

\* lines 264-270 and the synchronous part of the branch taken; lk is
\* lastKnownLanguage as the call finds it.  Line 267 assigns currentLanguage
\* to lastKnownLanguage before needsDataFetch (line 270) reads it.
Begin(st, lk, cur, online, t, force) ==
    LET call == NewCall(force)
        languageChanged == lk # Null /\ lk # cur
        lastKnown == cur
        shouldFetch == force \/ needsDataFetch(st, online, lastKnown, cur, t, cur)
        storedCount == ParseIntOr0(st, CountKey(cur))
        englishQuotes == getStoredQuotes(st, EN)
        storedQuotes == getStoredQuotes(st, cur)
    IN  IF shouldFetch THEN Going(st, Request(call, "metadata"))
        ELSE IF storedCount = 0 /\ cur # EN
        THEN IF englishQuotes = Null \/ Len(englishQuotes[1]) = 0
             THEN Going(st, [Request(call, "metadata") EXCEPT
                                !.ctx = "english", !.englishQuotes = englishQuotes])
             ELSE Return(st, [call EXCEPT !.ctx = "english"], englishQuotes[1])
        ELSE IF storedQuotes # Null /\ Len(storedQuotes[1]) > 0
        THEN Return(st, [call EXCEPT !.ctx = "stored"], storedQuotes[1])
        ELSE Going(st, StartAlternative(call, "stored"))

----------------------------------------------------------------------------
(* The widget *)

NoQuote == Quote("", "")

\* what displayRandomQuote may leave in the widget: the fallback quote for an
\* empty list, else a sampled element of the list
displayRandomQuote(quotes) ==
    IF Len(quotes) = 0 THEN {FALLBACK_QUOTE}
    ELSE {quotes[i] : i \in 1..Len(quotes)}

maxAttempts == 15

\* selectedQuote.quote.length + selectedQuote.author.length
TotalLength(q) == Len(q.quote) + Len(q.author)

\* mutant: a quote of exactly MAX_QUOTE_LENGTH characters is rejected
Fits_strict(q) == TotalLength(q) < MAX_QUOTE_LENGTH

Fits(q) == TotalLength(q) <= MAX_QUOTE_LENGTH

\* the loop of lines 394-402 after `attempts` iterations; rnd[k] is
\* Math.floor(Math.random() * quotes.length) of iteration k
RECURSIVE Sample(_, _, _)
Sample(quotes, rnd, attempts) ==
    LET selectedQuote == quotes[rnd[attempts + 1] + 1]
    IN  IF Fits(selectedQuote) \/ attempts + 1 >= maxAttempts
        THEN [shown |-> selectedQuote, attempts |-> attempts + 1]
        ELSE Sample(quotes, rnd, attempts + 1)

\* displayRandomQuote(quotes) for given random values: what it writes to the
\* widget and the number of samples it drew; quotes is Null when absent
displayRandomQuoteWith(quotes, rnd) ==
    IF quotes = Null \/ Len(quotes[1]) = 0
    THEN [shown |-> FALLBACK_QUOTE, attempts |-> 0]
    ELSE Sample(quotes[1], rnd, 0)

\* loadAndDisplayQuote after its await: render, or the fallback on a throw
Rendered(out) ==
    IF out.kind = "throw" THEN {FALLBACK_QUOTE} ELSE displayRandomQuote(out.quotes)

RemoveAt(seq, i) == SubSeq(seq, 1, i - 1) \o SubSeq(seq, i + 1, Len(seq))

FeatureEnabled == hideSearchWith /\ motivationalQuotesCheckbox
Loaded == lastKnownLanguage # Null

\* The step result r of the call at index i of cs (i = Len(cs) + 1: a new
\* call) is applied: the call goes on waiting and the widget stays w, or it
\* finishes and loadAndDisplayQuote renders.  e records the entry, if the
\* step is one.
Apply(r, cs, i, w, e) ==
    /\ localStorage' = r.st
    /\ entered' = e
    /\ IF r.out = Null
       THEN /\ calls' = (IF i > Len(cs) THEN Append(cs, r.call)
                         ELSE [cs EXCEPT ![i] = r.call])
            /\ widget' = w
            /\ ret' = Null
       ELSE /\ calls' = (IF i > Len(cs) THEN cs ELSE RemoveAt(cs, i))
            /\ \E q \in Rendered(r.out[1]) :
                 /\ widget' = q
                 /\ ret' = Some([call |-> r.call, out |-> r.out[1], shown |-> q])

Pure == <<needs, argLang, argMetadata, target, argQuotes, argStorage, draws,
          result>>

\* loadAndDisplayQuote(forceRefresh), up to the first await that suspends it
loadAndDisplayQuote(st, cs, force, lk, w) ==
    /\ Len(cs) < MaxCalls
    /\ lastKnownLanguage' = currentLanguage
    /\ Apply(Begin(st, lk, currentLanguage, onLine, now, force), cs,
             Len(cs) + 1, w,
             Some([localStorage |-> st, onLine |-> onLine,
                   lastKnownLanguage |-> lk,
                   currentLanguage |-> currentLanguage, forceRefresh |-> force]))

\* clearQuotesStorage
clearQuotesStorage(st, cs) ==
    /\ localStorage' = clearQuotesKeys(st)
    /\ widget' = NoQuote
    /\ calls' = cs
    /\ entered' = Null
    /\ ret' = Null

\* updateMotivationalQuotesState with the checkboxes as given; lk is
\* lastKnownLanguage as the handler found it
updateMotivationalQuotesState(hide, motiv, cs, lk, w) ==
    LET st == setItem(localStorage, VisibleKey, IF motiv THEN "true" ELSE "false")
    IN  IF ~hide THEN clearQuotesStorage(st, cs) /\ lastKnownLanguage' = lk
        ELSE IF motiv THEN loadAndDisplayQuote(st, cs, FALSE, lk, w)
        ELSE clearQuotesStorage(st, cs) /\ lastKnownLanguage' = lk

----------------------------------------------------------------------------
(* Actions *)

Init ==
    /\ localStorage = EmptyStorage
    /\ lastKnownLanguage = Null
    /\ currentLanguage \in UserLangs
    /\ onLine \in BOOLEAN
    /\ now = 0
    /\ hideSearchWith \in BOOLEAN
    /\ motivationalQuotesCheckbox = TRUE
    /\ widget = NoQuote
    /\ calls = <<>>
    /\ entered = Null
    /\ ret = Null
    /\ needs = Null
    /\ argLang = EN
    /\ argMetadata = Null
    /\ target = Null
    /\ argQuotes = <<>>
    /\ argStorage = EmptyStorage
    /\ draws = <<>>
    /\ result = Null

\* The page is loaded (again): the script state is fresh, calls in flight
\* are gone with the old page, the handler of DOMContentLoaded runs.
DOMContentLoaded ==
    LET motiv == IF hasItem(localStorage, VisibleKey)
                 THEN localStorage[VisibleKey] # "false" ELSE TRUE
    IN  /\ motivationalQuotesCheckbox' = motiv
        /\ updateMotivationalQuotesState(hideSearchWith, motiv, <<>>,
                                         currentLanguage, NoQuote)
        /\ UNCHANGED <<currentLanguage, onLine, now, hideSearchWith, Pure>>

\* change event of #shortcut_switchcheckbox
HideSearchWithChange ==
    /\ Loaded
    /\ hideSearchWith' = ~hideSearchWith
    /\ updateMotivationalQuotesState(~hideSearchWith, motivationalQuotesCheckbox,
                                     calls, lastKnownLanguage, widget)
    /\ UNCHANGED <<currentLanguage, onLine, now,
                   motivationalQuotesCheckbox, Pure>>

\* change event of #motivationalQuotesCheckbox
MotivationalQuotesChange ==
    /\ Loaded
    /\ motivationalQuotesCheckbox' = ~motivationalQuotesCheckbox
    /\ updateMotivationalQuotesState(hideSearchWith, ~motivationalQuotesCheckbox,
                                     calls, lastKnownLanguage, widget)
    /\ UNCHANGED <<currentLanguage, onLine, now, hideSearchWith, Pure>>

\* loadAndDisplayQuote called by the rest of the page while the widget is on
LoadAndDisplayQuote ==
    /\ Loaded
    /\ FeatureEnabled
    /\ \E force \in BOOLEAN :
         loadAndDisplayQuote(localStorage, calls, force, lastKnownLanguage, widget)
    /\ UNCHANGED <<currentLanguage, onLine, now, hideSearchWith,
                   motivationalQuotesCheckbox, Pure>>

Env == <<currentLanguage, onLine, now, hideSearchWith,
         motivationalQuotesCheckbox, lastKnownLanguage, Pure>>

\* the metadata request of call i completes
MetadataResponse ==
    \E i \in 1..Len(calls) :
        /\ calls[i].pc = "metadata"
        /\ \E resp \in MetadataResponses(onLine) :
             Apply(OnMetadata(localStorage, currentLanguage, now, calls[i], resp),
                   calls, i, widget, Null)
        /\ UNCHANGED Env

\* the quotes request of call i completes
QuotesResponse ==
    \E i \in 1..Len(calls) :
        /\ calls[i].pc = "quotes"
        /\ \E resp \in QuotesResponses(onLine, calls[i].targetLang) :
             Apply(OnQuotes(localStorage, currentLanguage, now, calls[i], resp),
                   calls, i, widget, Null)
        /\ UNCHANGED Env

\* the request to a fallback provider of call i completes
AlternativeResponse ==
    \E i \in 1..Len(calls) :
        /\ calls[i].pc = "alt"
        /\ \E resp \in AlternativeResponses(onLine, apis[calls[i].api]) :
             Apply(OnAlternative(localStorage, currentLanguage, now, calls[i], resp),
                   calls, i, widget, Null)
        /\ UNCHANGED Env

Quiet == <<localStorage, lastKnownLanguage, hideSearchWith,
           motivationalQuotesCheckbox, widget, calls, Pure>>

\* the user picks another language
LanguageChange ==
    /\ Loaded
    /\ \E l \in UserLangs \ {currentLanguage} : currentLanguage' = l
    /\ entered' = Null
    /\ ret' = Null
    /\ UNCHANGED <<onLine, now, Quiet>>

\* the connection comes or goes
Connectivity ==
    /\ Loaded
    /\ onLine' = ~onLine
    /\ entered' = Null
    /\ ret' = Null
    /\ UNCHANGED <<currentLanguage, now, Quiet>>

Next ==
    \/ DOMContentLoaded
    \/ HideSearchWithChange
    \/ MotivationalQuotesChange
    \/ LoadAndDisplayQuote
    \/ MetadataResponse
    \/ QuotesResponse
    \/ AlternativeResponse
    \/ LanguageChange
    \/ Connectivity

Spec == Init /\ [][Next]_vars

----------------------------------------------------------------------------
(* One life of the page: from the end of the DOMContentLoaded handler, run  *)
(* on a fresh profile, until the page is left, the language staying as it   *)
(* is.  Every request is answered or fails in the end: fetch settles each   *)
(* promise.                                                                 *)

InitLive ==
    /\ currentLanguage \in UserLangs
    /\ lastKnownLanguage = currentLanguage
    /\ onLine \in BOOLEAN
    /\ now = 0
    /\ hideSearchWith \in BOOLEAN
    /\ motivationalQuotesCheckbox = TRUE
    /\ widget = NoQuote
    /\ ret = Null
    /\ LET st == setItem(EmptyStorage, VisibleKey, "true")
           r == Begin(st, currentLanguage, currentLanguage, onLine, now, FALSE)
       IN  IF hideSearchWith
           THEN /\ r.out = Null
                /\ localStorage = r.st
                /\ calls = <<r.call>>
                /\ entered = Some([localStorage |-> st, onLine |-> onLine,
                                   lastKnownLanguage |-> currentLanguage,
                                   currentLanguage |-> currentLanguage,
                                   forceRefresh |-> FALSE])
           ELSE /\ localStorage = clearQuotesKeys(st)
                /\ calls = <<>>
                /\ entered = Null
    /\ needs = Null
    /\ argLang = EN
    /\ argMetadata = Null
    /\ target = Null
    /\ argQuotes = <<>>
    /\ argStorage = EmptyStorage
    /\ draws = <<>>
    /\ result = Null

NextLive ==
    \/ HideSearchWithChange
    \/ MotivationalQuotesChange
    \/ LoadAndDisplayQuote
    \/ MetadataResponse
    \/ QuotesResponse
    \/ AlternativeResponse
    \/ Connectivity

SpecLive ==
    /\ InitLive
    /\ [][NextLive]_vars
    /\ WF_vars(MetadataResponse)
    /\ WF_vars(QuotesResponse)
    /\ WF_vars(AlternativeResponse)

----------------------------------------------------------------------------
(* Direct calls of the two pure decision functions.  The inputs are drawn  *)
(* in the initial state; the one action applies the function.              *)

StoredCounts == {0, 1, 99, 100}
Ages == {0, ONE_DAY - 1, ONE_DAY, ONE_DAY + 1, 7 * ONE_DAY, 7 * ONE_DAY + 1}

\* a complete cache entry of lang, written at time 0 with the given count
FullEntry(lang, count) ==
    LET q == IF count = 0 THEN <<>> ELSE BulkQuotes(lang)
    IN  setItem(setItem(setItem(EmptyStorage,
            QuotesKey(lang), JSONstringify(q)),
            TimestampKey(lang), 0),
            CountKey(lang), toString(count))

Restrict(st, keys) == [k \in DOMAIN st \cap keys |-> st[k]]

IdleWidget ==
    /\ hideSearchWith = FALSE
    /\ motivationalQuotesCheckbox = TRUE
    /\ widget = Quote("", "")
    /\ calls = <<>>
    /\ entered = Null
    /\ ret = Null

IdleRest ==
    /\ IdleWidget
    /\ needs = Null
    /\ target = Null
    /\ argQuotes = <<>>
    /\ argStorage = EmptyStorage
    /\ draws = <<>>
    /\ result = Null

InitNeeds ==
    /\ currentLanguage \in Langs
    /\ lastKnownLanguage \in {Null} \cup Langs
    /\ onLine \in BOOLEAN
    /\ now \in Ages
    /\ \E c \in StoredCounts, K \in SUBSET requiredKeys(currentLanguage) :
            localStorage = Restrict(FullEntry(currentLanguage, c), K)
    /\ argLang = currentLanguage        \* the call site passes currentLanguage
    /\ argMetadata = Null
    /\ IdleRest

ApplyNeedsDataFetch ==
    /\ needs = Null
    /\ needs' = Some(needsDataFetch(localStorage, onLine, lastKnownLanguage,
                                    currentLanguage, now, argLang))
    /\ UNCHANGED <<localStorage, lastKnownLanguage, currentLanguage, onLine, now,
                   hideSearchWith, motivationalQuotesCheckbox, widget,
                   calls, entered, ret, argLang, argMetadata, target,
                   argQuotes, argStorage, draws, result>>

NextNeeds == ApplyNeedsDataFetch
SpecNeeds == InitNeeds /\ [][NextNeeds]_vars

InitTarget ==
    /\ argLang \in Langs
    /\ argMetadata \in {Null} \cup {Some(m) : m \in Metadatas(Langs)}
    /\ currentLanguage = argLang
    /\ lastKnownLanguage = Null
    /\ onLine = TRUE
    /\ now = 0
    /\ localStorage = EmptyStorage
    /\ IdleRest

ApplyGetTargetLanguage ==
    /\ target = Null
    /\ target' = Some(getTargetLanguage(argLang, argMetadata))
    /\ UNCHANGED <<localStorage, lastKnownLanguage, currentLanguage, onLine, now,
                   hideSearchWith, motivationalQuotesCheckbox, widget,
                   calls, entered, ret, needs, argLang, argMetadata,
                   argQuotes, argStorage, draws, result>>

NextTarget == ApplyGetTargetLanguage
SpecTarget == InitTarget /\ [][NextTarget]_vars

----------------------------------------------------------------------------
(* A direct call of storeQuotesData, followed by a read of the entry *)

QuoteLists ==
    {<<>>,
     <<Quote("one", "First Author")>>,
     <<Quote("one", "First Author"), Quote("two", "Unknown")>>}

\* what localStorage already holds for the language: nothing, or a full entry
PriorCounts == {100}

InitStore ==
    /\ argLang \in Langs
    /\ argQuotes \in QuoteLists
    /\ argMetadata \in {Null} \cup {Some(m) : m \in Metadatas(Langs)}
    /\ argStorage \in {EmptyStorage} \cup {FullEntry(argLang, c) : c \in PriorCounts}
    /\ localStorage = argStorage
    /\ currentLanguage = argLang
    /\ lastKnownLanguage = Null
    /\ onLine = TRUE
    /\ now = ONE_DAY
    /\ IdleWidget
    /\ needs = Null
    /\ target = Null
    /\ draws = <<>>
    /\ result = Null

\* storeQuotesData(lang, quotes, metadata), then getStoredQuotes(lang) and the
\* count as lines 91 and 313 read it
ApplyStoreQuotesData ==
    /\ result = Null
    /\ localStorage' = storeQuotesData(localStorage, argLang, argQuotes,
                                       argMetadata, now)
    /\ result' = Some([quotes |-> getStoredQuotes(localStorage', argLang),
                       count |-> ParseIntOr0(localStorage', CountKey(argLang))])
    /\ UNCHANGED <<lastKnownLanguage, currentLanguage, onLine, now,
                   hideSearchWith, motivationalQuotesCheckbox, widget, calls,
                   entered, ret, needs, argLang, argMetadata, target,
                   argQuotes, argStorage, draws>>

NextStore == ApplyStoreQuotesData
SpecStore == InitStore /\ [][NextStore]_vars

----------------------------------------------------------------------------
(* A direct call of clearOtherLanguageQuotes *)

ZH == <<"z", "h">>
ZH_TW == <<"z", "h", "_", "T", "W">>
PurgeLangs == {EN, ZH, ZH_TW}

\* the keys localStorage may hold when the purge runs
PurgeKeys ==
    UNION {requiredKeys(l) : l \in PurgeLangs} \cup {MetadataTimestampKey, VisibleKey}

InitPurge ==
    /\ argLang \in PurgeLangs
    /\ \E K \in SUBSET PurgeKeys : argStorage = [k \in K |-> "stored"]
    /\ localStorage = argStorage
    /\ currentLanguage = argLang
    /\ lastKnownLanguage = argLang
    /\ onLine = TRUE
    /\ now = 0
    /\ IdleWidget
    /\ needs = Null
    /\ target = Null
    /\ argMetadata = Null
    /\ argQuotes = <<>>
    /\ draws = <<>>
    /\ result = Null

ApplyClearOtherLanguageQuotes ==
    /\ result = Null
    /\ localStorage' = clearOtherLanguageQuotes(localStorage, argLang)
    /\ result' = Some("purged")
    /\ UNCHANGED <<lastKnownLanguage, currentLanguage, onLine, now,
                   hideSearchWith, motivationalQuotesCheckbox, widget, calls,
                   entered, ret, needs, argLang, argMetadata, target,
                   argQuotes, argStorage, draws>>

NextPurge == ApplyClearOtherLanguageQuotes
SpecPurge == InitPurge /\ [][NextPurge]_vars

----------------------------------------------------------------------------
(* A direct call of displayRandomQuote *)

\* a text of n characters
Chars(n) == [i \in 1..n |-> "x"]

AtLimit == Quote(Chars(MAX_QUOTE_LENGTH - Len("Author")), "Author")
OverLimit == Quote(Chars(MAX_QUOTE_LENGTH - Len("Author") + 1), "Author")
FarOver == Quote(Chars(MAX_QUOTE_LENGTH), "Author")
Brief == Quote(Chars(Len("brief")), "Author")

DisplayLists ==
    {<<>>, <<AtLimit>>, <<OverLimit>>, <<OverLimit, AtLimit>>,
     <<Brief, FarOver>>, <<OverLimit, FarOver>>}

InitDisplay ==
    /\ argQuotes \in {Null} \cup {Some(l) : l \in DisplayLists}
    /\ IF argQuotes = Null \/ Len(argQuotes[1]) = 0 THEN draws = <<>>
       ELSE draws \in [1..maxAttempts -> 0..(Len(argQuotes[1]) - 1)]
    /\ localStorage = EmptyStorage
    /\ currentLanguage = EN
    /\ lastKnownLanguage = EN
    /\ onLine = TRUE
    /\ now = 0
    /\ hideSearchWith = TRUE
    /\ motivationalQuotesCheckbox = TRUE
    /\ widget = NoQuote
    /\ calls = <<>>
    /\ entered = Null
    /\ ret = Null
    /\ needs = Null
    /\ target = Null
    /\ argLang = EN
    /\ argMetadata = Null
    /\ argStorage = EmptyStorage
    /\ result = Null

ApplyDisplayRandomQuote ==
    /\ result = Null
    /\ result' = Some(displayRandomQuoteWith(argQuotes, draws))
    /\ widget' = result'[1].shown
    /\ UNCHANGED <<localStorage, lastKnownLanguage, currentLanguage, onLine, now,
                   hideSearchWith, motivationalQuotesCheckbox, calls,
                   entered, ret, needs, argLang, argMetadata, target,
                   argQuotes, argStorage, draws>>

NextDisplay == ApplyDisplayRandomQuote
SpecDisplay == InitDisplay /\ [][NextDisplay]_vars

----------------------------------------------------------------------------
(* Claims about needsDataFetch and getTargetLanguage *)

AllKeysPresent(lang) == \A k \in requiredKeys(lang) : hasItem(localStorage, k)
LanguageDiffers == lastKnownLanguage # Null /\ lastKnownLanguage # argLang

C9_Threshold(count) ==
    IF count = 0 THEN 86400000
    ELSE IF count < 100 THEN 86400000
    ELSE 604800000

\* C9: online, language unchanged, the three keys present: needsDataFetch is
\* true exactly when now - storedTimestamp strictly exceeds 24h (count 0),
\* 24h (0 < count < 100) or 168h (count >= 100).
C9_StaleStrictlyAfterThreshold ==
    (needs # Null /\ onLine /\ ~LanguageDiffers /\ AllKeysPresent(argLang)) =>
        (needs[1] <=> (now - localStorage[TimestampKey(argLang)]
                        > C9_Threshold(ParseIntOr0(localStorage, CountKey(argLang)))))

\* age exactly 168h with count 100 is not stale
C9_Witness ==
    /\ needs = Some(FALSE)
    /\ onLine
    /\ ~LanguageDiffers
    /\ AllKeysPresent(argLang)
    /\ localStorage[CountKey(argLang)] = <<"1", "0", "0">>
    /\ now - localStorage[TimestampKey(argLang)] = 604800000

\* C10: getTargetLanguage returns "en" for "en" with any metadata, and for a
\* non-English language L returns L iff metadata.files["L.json"].count >= 100
\* and "en" otherwise.
C10_TargetLanguage ==
    target # Null =>
        /\ argLang = EN => target[1] = EN
        /\ argLang # EN =>
            /\ target[1] \in {argLang, EN}
            /\ target[1] = argLang <=>
                /\ argMetadata # Null
                /\ FileName(argLang) \in DOMAIN argMetadata[1].files
                /\ argMetadata[1].files[FileName(argLang)] >= 100

\* fr with a count of exactly 100 resolves to fr
C10_Witness ==
    /\ target = Some(FR)
    /\ argLang = FR
    /\ argMetadata # Null
    /\ FileName(FR) \in DOMAIN argMetadata[1].files
    /\ argMetadata[1].files[FileName(FR)] = 100

----------------------------------------------------------------------------
(* Claims about getQuotesForLanguage and loadAndDisplayQuote, under Spec *)

\* the calls the state knows: those in flight and the one that just finished
KnownCalls ==
    {calls[i] : i \in 1..Len(calls)} \cup (IF ret # Null THEN {ret[1].call} ELSE {})

NonEmpty(stored) == stored # Null /\ Len(stored[1]) > 0

CachedLangs(st) == {l \in Langs : \E k \in requiredKeys(l) : hasItem(st, k)}

\* C1: getQuotesForLanguage never raises: whatever the cache, the language,
\* forceRefresh, the connection and the providers do, a call that completes
\* has returned a list of quotes.
C1_NeverRaises ==
    ret # Null => ret[1].out.kind = "return"

\* the bulk provider failed and all three fallback providers failed twice
C1_Witness ==
    /\ ret # Null
    /\ ret[1].call.ctx = "outer"
    /\ Len(ret[1].call.altRuns) = 2
    /\ \A j \in 1..2 : \A k \in 1..3 : ret[1].call.altRuns[j][k].quote = Null
    /\ ret[1].out.quotes = <<FALLBACK_QUOTE>>

\* C2: called offline, without forced refresh, with no cache key of the
\* language, getQuotesForLanguage returns the hardcoded fallback quote and
\* issues no network request.
C2_OfflineNoCacheNoNetwork ==
    (/\ entered # Null
     /\ ~entered[1].onLine
     /\ ~entered[1].forceRefresh
     /\ DOMAIN entered[1].localStorage
            \cap requiredKeys(entered[1].currentLanguage) = {})
    => /\ ret # Null
       /\ ret[1].call.requests = <<>>
       /\ ret[1].out.quotes = <<FALLBACK_QUOTE>>

\* C3: once a call has returned, the cache holds entries of no language
\* other than the active language and English.
C3_OnlyActiveAndEnglishCached ==
    ret # Null => CachedLangs(localStorage) \subseteq {currentLanguage, EN}

\* C4: the outer failure handler, finding no non-empty cached list for the
\* language but a non-empty cached English list, returns the cached English
\* quotes and invokes no fallback provider.
C4_OuterHandlerPrefersCachedEnglish ==
    \A c \in KnownCalls :
        (/\ c.outerStored # Null
         /\ ~NonEmpty(c.outerStored[1].own)
         /\ NonEmpty(c.outerStored[1].en))
        => /\ c.ctx # "outer"
           /\ (ret # Null /\ c = ret[1].call)
                => ret[1].out.quotes = c.outerStored[1].en[1]

\* the provider requests of a call, in order
RECURSIVE ProviderRequests(_)
ProviderRequests(reqs) ==
    IF reqs = <<>> THEN <<>>
    ELSE (IF Head(reqs) \in {"metadata", "quotes"} THEN <<>> ELSE <<Head(reqs)>>)
         \o ProviderRequests(Tail(reqs))

RECURSIVE Invoked(_)
Invoked(runs) ==
    IF runs = <<>> THEN <<>>
    ELSE [k \in 1..Len(Head(runs)) |-> Head(runs)[k].api] \o Invoked(Tail(runs))

C5_Order == <<"vercel", "programming", "dummyjson">>

\* C5: every run of fetchAlternativeQuote invokes the providers in the order
\* vercel, programming, dummyjson, stops at the first that delivers a quote
\* with text and author, returns exactly that quote, and raises only when
\* all three have failed or delivered incomplete data.
C5_FallbackChainOrder ==
    \A c \in KnownCalls :
        LET n == Len(c.altRuns)
            finished == ret # Null /\ c = ret[1].call
        IN  /\ \A j \in 1..n :
                LET run == c.altRuns[j]
                    m == Len(run)
                IN  /\ m <= 3
                    /\ \A k \in 1..m : run[k].api = C5_Order[k]
                    /\ \A k \in 1..(m - 1) : run[k].quote = Null
                    \* a run that ended without a quote tried all three
                    /\ ((j < n \/ finished) /\ (m = 0 \/ run[m].quote = Null))
                         => m = 3
                    \* a run that ended with a quote is the end of the call
                    /\ (m > 0 /\ run[m].quote # Null) =>
                         /\ j = n
                         /\ finished
                         /\ run[m].quote[1].quote # ""
                         /\ run[m].quote[1].author # ""
                         /\ ret[1].out.quotes = <<run[m].quote[1]>>
            \* a provider is requested only as the next one of a run
            /\ \/ ProviderRequests(c.requests) = Invoked(c.altRuns)
               \/ /\ ~finished
                  /\ c.pc = "alt"
                  /\ ProviderRequests(c.requests)
                        = Append(Invoked(c.altRuns), C5_Order[Len(c.altRuns[n]) + 1])

\* vercel failed, programming delivered, dummyjson was never requested
C5_Witness ==
    /\ ret # Null
    /\ Len(ret[1].call.altRuns) = 1
    /\ Len(ret[1].call.altRuns[1]) = 2
    /\ ret[1].call.altRuns[1][1].quote = Null
    /\ ret[1].out.quotes = <<Quote("programming-quote", "programming-author")>>
    /\ \A k \in 1..Len(ret[1].call.requests) :
            ret[1].call.requests[k] # "dummyjson"

\* C6: loadAndDisplayQuote writes a quote to the widget only while the
\* feature is enabled (both checkboxes ticked).
C6_RenderOnlyWhenEnabled ==
    ret # Null => FeatureEnabled

----------------------------------------------------------------------------
(* Claims about the cache store *)

\* C11: for every language L, quote list Q and metadata M that carries a
\* count for L.json, storeQuotesData(L, Q, M) followed by a read of the cache
\* for L yields a quote list equal to Q and a stored count equal to M's count
\* for L.json.
C11_StoreRoundTrip ==
    (result # Null /\ FileCount(argMetadata, argLang) # Null) =>
        /\ result[1].quotes = Some(argQuotes)
        /\ result[1].count = FileCount(argMetadata, argLang)[1]

\* C14: clearOtherLanguageQuotes(keep) deletes every language-scoped quote
\* key of every language other than keep, also of a language whose code has
\* keep as a prefix ("zh" against "zh_TW"), and leaves unchanged the keys of
\* keep, quotes_metadata_timestamp and every key not starting with quotes_.
C14_PurgeExceptKeep ==
    result # Null =>
        \A k \in DOMAIN argStorage :
            IF \/ k \in requiredKeys(argLang)
               \/ k = MetadataTimestampKey
               \/ ~StartsWith(k, QuotesPrefix)
            THEN k \in DOMAIN localStorage /\ localStorage[k] = argStorage[k]
            ELSE (\E l \in PurgeLangs \ {argLang} : k \in requiredKeys(l))
                    => k \notin DOMAIN localStorage

----------------------------------------------------------------------------
(* Claims about the scenarios of getQuotesForLanguage, under Spec *)

\* the call that has just returned took the use-cache branch for a language
\* with stored count 0 and no cached English quotes, and both requests to the
\* bulk provider (metadata.json, en.json) delivered
EnglishFetched ==
    /\ ret # Null
    /\ ret[1].call.ctx = "english"
    /\ ret[1].call.pc = "quotes"
    /\ ret[1].call.metadata # Null
    /\ ret[1].call.requests = <<"metadata", "quotes">>

\* C12: online, the entry of a non-English language is fresh with count 0,
\* there is no English cache and the bulk provider succeeds for English: the
\* call returns the English quotes the bulk provider delivered and, when it
\* returns, they are stored under "en" (quotes, timestamp and count keys).
C12_EnglishFetchedAndCached ==
    EnglishFetched =>
        /\ ret[1].out.kind = "return"
        /\ \E resp \in QuotesResponses(TRUE, EN) \ {Null} :
                ret[1].out.quotes = resp[1]
        /\ requiredKeys(EN) \subseteq DOMAIN localStorage
        /\ getStoredQuotes(localStorage, EN) = Some(ret[1].out.quotes)

\* fr has a fresh entry with count 0, en.json delivered the English quotes
C12_Witness ==
    /\ EnglishFetched
    /\ onLine
    /\ currentLanguage = FR
    /\ ~ret[1].call.forceRefresh
    /\ requiredKeys(FR) \subseteq DOMAIN localStorage
    /\ ParseIntOr0(localStorage, CountKey(FR)) = 0
    /\ now - localStorage[TimestampKey(FR)] = 0
    /\ ret[1].out.quotes = BulkQuotes(EN)
    /\ getStoredQuotes(localStorage, EN) = Some(BulkQuotes(EN))

\* the quote a run of fetchAlternativeQuote ended with, Null when it failed
RunQuote(run) == IF run = <<>> THEN Null ELSE run[Len(run)].quote

\* the call that has just returned found a fetch due (shouldFetch) and its
\* bulk fetch failed
BulkFailed ==
    /\ ret # Null
    /\ ret[1].call.ctx \in {"fetch", "outer"}
    /\ ret[1].call.pc # "quotes"

\* the cache holds exactly <<q>> under lang, with count "1"
CachedAlone(st, lang, q) ==
    /\ requiredKeys(lang) \subseteq DOMAIN st
    /\ getStoredQuotes(st, lang) = Some(<<q>>)
    /\ st[CountKey(lang)] = <<"1">>

\* C13: a fetch is due and the bulk provider fails: the call runs
\* fetchAlternativeQuote and, if a fallback provider returns X by Y, returns
\* [X/Y] and the cache holds exactly that list under the requested language
\* with count "1".
C13_AlternativeReturnedAndCached ==
    BulkFailed =>
        LET runs == ret[1].call.altRuns
        IN  /\ Len(runs) >= 1
            /\ \A j \in 1..Len(runs) :
                  RunQuote(runs[j]) # Null =>
                    /\ ret[1].out.quotes = <<RunQuote(runs[j])[1]>>
                    /\ CachedAlone(localStorage, currentLanguage,
                                   RunQuote(runs[j])[1])

----------------------------------------------------------------------------
(* Claims about loadAndDisplayQuote and displayRandomQuote *)

\* the elements of a list of quotes
Elements(quotes) == {quotes[i] : i \in 1..Len(quotes)}

\* C15: every invocation of loadAndDisplayQuote ends, given that every
\* request is answered or fails in the end, and when it ends the widget shows
\* a quote of the list getQuotesForLanguage returned or the hardcoded
\* fallback quote, never an error.
C15_EventuallyRenders ==
    /\ [](ret # Null =>
            /\ widget = ret[1].shown
            /\ widget \in Elements(ret[1].out.quotes) \cup {FALLBACK_QUOTE}
            /\ widget # NoQuote)
    /\ (calls # <<>>) ~> (ret # Null)

\* a fetch was due, the bulk provider and twice all three fallback providers
\* failed: the call ended and the widget shows the fallback quote
C15_Witness ==
    /\ ret # Null
    /\ calls = <<>>
    /\ Len(ret[1].call.requests) = 1 + 2 * Len(apis)
    /\ widget = FALLBACK_QUOTE

\* C17: a language switch forces a fetch in getQuotesForLanguage: online, with
\* the current language at entry different from the last-observed language,
\* the call requests metadata.json of the bulk provider (shouldFetch is
\* true), also without forceRefresh and with a complete, fresh entry of the
\* new language in the cache.
C17_LanguageSwitchForcesFetch ==
    (/\ entered # Null
     /\ entered[1].onLine
     /\ entered[1].lastKnownLanguage # Null
     /\ entered[1].lastKnownLanguage # entered[1].currentLanguage)
    => /\ ret = Null
       /\ calls # <<>>
       /\ calls[Len(calls)].ctx = "fetch"
       /\ calls[Len(calls)].requests = <<"metadata">>

\* the call that has just returned fetched a non-empty list from the bulk
\* provider (lines 275-291)
BulkSucceeded ==
    /\ ret # Null
    /\ ret[1].call.ctx = "fetch"
    /\ ret[1].call.pc = "quotes"
    /\ Len(ret[1].out.quotes) > 0

\* C18: after a call whose bulk fetch succeeded, whatever the requested
\* language and its metadata count, a directly following call for the same
\* language, online, without forceRefresh, with no time passed and no purge
\* in between, returns the same quotes from the cache and issues no request.
C18_CacheAvoidsRefetch ==
    (BulkSucceeded /\ onLine) =>
        LET following == Begin(localStorage, currentLanguage, currentLanguage,
                               onLine, now, FALSE)
        IN  /\ following.out # Null
            /\ following.out[1].quotes = ret[1].out.quotes
            /\ following.call.requests = <<>>

\* the number of requests of a call to one endpoint
RequestsTo(c, endpoint) ==
    Cardinality({k \in 1..Len(c.requests) : c.requests[k] = endpoint})

\* C19: the fallback chain is single-pass: within one getQuotesForLanguage
\* call, whatever fails, fetchAlternativeQuote runs at most once, so each of
\* the three fallback providers receives at most one request.
C19_SinglePass ==
    \A c \in KnownCalls :
        /\ Len(c.altRuns) <= 1
        /\ \A k \in 1..Len(apis) : RequestsTo(c, apis[k]) <= 1

\* C20: in every reachable state, under any interleaving of calls, language
\* changes and purges, the cache entry of each language is consistent: its
\* three keys are all present or all absent, and a stored count of 0 goes
\* with an empty stored list.
C20_EntriesConsistent ==
    \A l \in Langs :
        /\ requiredKeys(l) \cap DOMAIN localStorage \in {{}, requiredKeys(l)}
        /\ (/\ hasItem(localStorage, CountKey(l))
            /\ ParseIntOr0(localStorage, CountKey(l)) = 0
            /\ hasItem(localStorage, QuotesKey(l)))
           => getStoredQuotes(localStorage, l) = Some(<<>>)

\* the quote sample k of the direct call drew
Sampled(k) == argQuotes[1][draws[k] + 1]

\* C16: displayRandomQuote on an empty or absent list renders the hardcoded
\* fallback quote and nothing else; on a non-empty list it draws at most 15
\* samples, renders an element of the list, stops at the first sample whose
\* text+author length is <= 140, and renders a longer quote only if all 15
\* samples exceeded 140, and then the 15th.
C16_DisplayRandomQuote ==
    result # Null =>
        /\ widget = result[1].shown
        /\ IF argQuotes = Null \/ Len(argQuotes[1]) = 0
           THEN result[1] = [shown |-> FALLBACK_QUOTE, attempts |-> 0]
           ELSE LET n == result[1].attempts
                IN  /\ n \in 1..15
                    /\ widget \in Elements(argQuotes[1])
                    /\ widget = Sampled(n)
                    /\ \A k \in 1..(n - 1) : TotalLength(Sampled(k)) > 140
                    /\ n < 15 => TotalLength(widget) <= 140
                    /\ TotalLength(widget) > 140 =>
                          /\ n = 15
                          /\ \A k \in 1..15 : TotalLength(Sampled(k)) > 140

\* fifteen samples of a list that holds a fitting quote were all too long:
\* the fifteenth is shown
C16_Witness ==
    /\ result # Null
    /\ argQuotes = Some(<<OverLimit, AtLimit>>)
    /\ result[1].attempts = 15
    /\ widget = OverLimit
    /\ TotalLength(widget) = 141

====
